---- MODULE Spec2Model ----
(***************************************************************************)
(* corabastos.py: the daily bulletin job.  main() gates on the weekday,    *)
(* probes three candidate URLs for the day's PDF, extracts every table of  *)
(* the PDF into one data frame, prepends the date column and appends the   *)
(* result to the "Boletin" worksheet, writing the header row when the      *)
(* worksheet is read as empty.                                             *)
(*                                                                         *)
(* Strings that the code only compares or forwards are TLA+ strings;       *)
(* the Content-Type header, which the code lower-cases and searches, is a  *)
(* sequence of one-character strings.  A data frame is a record of its     *)
(* column names and its rows; a cell is a tagged record so that text,      *)
(* integers and the missing value have one shape.                          *)
(***************************************************************************)
EXTENDS Integers, Sequences, FiniteSets, TLC

(***************************************************************************)
(* Generic sequence helpers                                                *)
(***************************************************************************)
Range(s) == {s[i] : i \in DOMAIN s}

RECURSIVE Flatten(_)
Flatten(ss) == IF ss = <<>> THEN <<>> ELSE Head(ss) \o Flatten(Tail(ss))

IsPrefix(s, t) == Len(s) <= Len(t) /\ SubSeq(t, 1, Len(s)) = s

(***************************************************************************)
(* Dates: dt.date, weekday() and isoformat()                               *)
(***************************************************************************)
Date(y, m, d) == [year |-> y, month |-> m, day |-> d]

IsLeap(y) == (y % 4 = 0) /\ ((y % 100 # 0) \/ (y % 400 = 0))

DaysInMonth(y, m) ==
    IF m = 2 THEN (IF IsLeap(y) THEN 29 ELSE 28)
    ELSE IF m \in {4, 6, 9, 11} THEN 30 ELSE 31

RECURSIVE DaysBeforeMonth(_, _)
DaysBeforeMonth(y, m) ==
    IF m = 1 THEN 0 ELSE DaysBeforeMonth(y, m - 1) + DaysInMonth(y, m - 1)

ToOrdinal(f) ==
    LET y == f.year - 1
    IN  y * 365 + (y \div 4) - (y \div 100) + (y \div 400)
        + DaysBeforeMonth(f.year, f.month) + f.day

\* date.weekday(): 0 = Monday ... 6 = Sunday
Weekday(f) == (ToOrdinal(f) + 6) % 7

DigitChar == <<"0", "1", "2", "3", "4", "5", "6", "7", "8", "9">>

RECURSIVE Str10(_)
\* str(n) / f"{n}" for n >= 0
Str10(n) == IF n < 10 THEN DigitChar[n + 1]
            ELSE Str10(n \div 10) \o DigitChar[(n % 10) + 1]

RECURSIVE ZeroPad(_, _)
\* f"{n:0wd}"
ZeroPad(n, w) == IF w <= 1 THEN Str10(n)
                 ELSE IF Len(Str10(n)) >= w THEN Str10(n)
                 ELSE "0" \o ZeroPad(n, w - 1)

\* date.isoformat(): YYYY-MM-DD
IsoFormat(f) == ZeroPad(f.year, 4) \o "-" \o ZeroPad(f.month, 2)
                \o "-" \o ZeroPad(f.day, 2)

SPANISH_MONTHS ==
    <<"enero", "febrero", "marzo", "abril", "mayo", "junio", "julio",
      "agosto", "septiembre", "octubre", "noviembre", "diciembre">>

\* the gate with Saturday taken for a working day
es_dia_habil_sabado(fecha) == Weekday(fecha) < 6

es_dia_habil(fecha) == Weekday(fecha) < 5

construir_urls_candidatas(fecha) ==
    LET year == Str10(fecha.year)
        mes_nombre == SPANISH_MONTHS[fecha.month]
        base == "https://corabastos.com.co/wp-content/uploads/" \o year
                \o "/" \o ZeroPad(fecha.month, 2) \o "/"
    IN  << base \o "Boletin-" \o ZeroPad(fecha.day, 2) \o mes_nombre
                \o year \o ".pdf",
           base \o "Boletin-" \o Str10(fecha.day) \o mes_nombre
                \o year \o ".pdf",
           base \o "Boletin_diario_" \o year \o ZeroPad(fecha.month, 2)
                \o ZeroPad(fecha.day, 2) \o ".pdf" >>

(***************************************************************************)
(* HTTP responses as descargar_pdf reads them                              *)
(***************************************************************************)
UpperChars == <<"A", "P", "D", "F">>
LowerChars == <<"a", "p", "d", "f">>

\* str.lower(), on the characters the model's headers use
LowerChar(c) ==
    IF \E i \in DOMAIN UpperChars : UpperChars[i] = c
    THEN LowerChars[CHOOSE i \in DOMAIN UpperChars : UpperChars[i] = c]
    ELSE c

Lower(s) == [i \in DOMAIN s |-> LowerChar(s[i])]

\* needle in haystack (substring test)
Contains(hay, needle) ==
    \E i \in 0..(Len(hay) - Len(needle)) :
        SubSeq(hay, i + 1, i + Len(needle)) = needle

PdfWord == <<"p", "d", "f">>

\* the acceptance test without .lower()
AceptableCaseSensitive(resp) ==
    resp.status_code = 200 /\ Contains(resp.ctype, PdfWord)

\* line 82-83: the acceptance test applied to a response
Aceptable(resp) ==
    LET content_type == Lower(resp.ctype)
    IN  resp.status_code = 200 /\ Contains(content_type, PdfWord)

(***************************************************************************)
(* Data frames (pandas) as the code uses them                              *)
(***************************************************************************)
StrCell(s) == [k |-> "str", s |-> s, n |-> 0]
IntCell(n) == [k |-> "int", s |-> "", n |-> n]
NA == [k |-> "na", s |-> "", n |-> 0]

EmptyDF == [cols |-> <<>>, rows |-> <<>>]

HasDuplicates(cols) == \E i, j \in DOMAIN cols : i # j /\ cols[i] = cols[j]

IsRectangular(rows, header) == \A i \in DOMAIN rows : Len(rows[i]) = Len(header)

\* pd.DataFrame(rows, columns=header), for rows as wide as the header
NewDataFrame(rows, header) ==
    [cols |-> header,
     rows |-> [i \in DOMAIN rows |-> [j \in DOMAIN header |-> StrCell(rows[i][j])]]]

\* df[name] = value: every column called name is overwritten in place, and a
\* new column is added at the end when there is none
SetColumn(df, name, value) ==
    IF \E j \in DOMAIN df.cols : df.cols[j] = name
    THEN [df EXCEPT !.rows =
            [i \in DOMAIN df.rows |->
               [j \in DOMAIN df.cols |->
                  IF df.cols[j] = name THEN value ELSE df.rows[i][j]]]]
    ELSE [cols |-> Append(df.cols, name),
          rows |-> [i \in DOMAIN df.rows |-> Append(df.rows[i], value)]]

RECURSIVE AppendNew(_, _)
\* cols followed by the names it does not hold yet, in their order
AppendNew(cols, names) ==
    IF names = <<>> THEN cols
    ELSE AppendNew(IF Head(names) \in Range(cols) THEN cols
                   ELSE Append(cols, Head(names)),
                   Tail(names))

RECURSIVE UnionCols(_)
\* the union of the frames' columns in order of first appearance
UnionCols(frames) ==
    IF frames = <<>> THEN <<>>
    ELSE AppendNew(UnionCols(SubSeq(frames, 1, Len(frames) - 1)),
                   frames[Len(frames)].cols)

Reindex(df, cols) ==
    [i \in DOMAIN df.rows |->
       [j \in DOMAIN cols |->
          IF cols[j] \in Range(df.cols)
          THEN df.rows[i][CHOOSE c \in DOMAIN df.cols : df.cols[c] = cols[j]]
          ELSE NA]]

\* pd.concat(frames, ignore_index=True) on a non-empty list: frames with the
\* same columns are stacked as they are; otherwise the columns are unioned
\* and each frame reindexed, which pandas refuses for a frame whose column
\* names repeat (InvalidIndexError)
ConcatFails(frames) ==
    /\ \E i \in DOMAIN frames : frames[i].cols # frames[1].cols
    /\ \E i \in DOMAIN frames : HasDuplicates(frames[i].cols)

Concat(frames) ==
    IF \A i \in DOMAIN frames : frames[i].cols = frames[1].cols
    THEN [cols |-> frames[1].cols,
          rows |-> Flatten([i \in DOMAIN frames |-> frames[i].rows])]
    ELSE LET cols == UnionCols(frames)
         IN  [cols |-> cols,
              rows |-> Flatten([i \in DOMAIN frames |-> Reindex(frames[i], cols)])]

\* df.replace("", pd.NA)
ReplaceEmpty(df) ==
    [df EXCEPT !.rows =
       [i \in DOMAIN df.rows |->
          [j \in DOMAIN df.cols |->
             IF df.rows[i][j] = StrCell("") THEN NA ELSE df.rows[i][j]]]]

RECURSIVE RowsNotAllNA(_)
RowsNotAllNA(rows) ==
    IF rows = <<>> THEN <<>>
    ELSE (IF \E j \in DOMAIN Head(rows) : Head(rows)[j] # NA
          THEN <<Head(rows)>> ELSE <<>>) \o RowsNotAllNA(Tail(rows))

\* df.dropna(how="all"): a row goes only when every one of its cells is missing
DropNaAll(df) == [df EXCEPT !.rows = RowsNotAllNA(df.rows)]

(***************************************************************************)
(* extraer_tablas_pdf                                                      *)
(*                                                                         *)
(* A PDF body is [ok, pages]: ok is FALSE for bytes pdfplumber cannot      *)
(* open; pages is the list, per page, of the tables extract_tables()       *)
(* returns, each a list of rows of text cells.                             *)
(***************************************************************************)
Pdf(pages) == [ok |-> TRUE, pages |-> pages]
CorruptPdf == [ok |-> FALSE, pages |-> <<>>]

\* the length test off by one: a header-only table is kept
TableFramesKeepHeaderOnly(table, page_num, table_idx) ==
    IF table = <<>> \/ Len(table) < 1 THEN <<>>
    ELSE LET header == table[1]
             rows == SubSeq(table, 2, Len(table))
             df == NewDataFrame(rows, header)
             df1 == SetColumn(df, "pagina", IntCell(page_num))
         IN  << SetColumn(df1, "tabla", IntCell(table_idx + 1)) >>

\* the table ordinal left zero-based
TableFramesZeroBased(table, page_num, table_idx) ==
    IF table = <<>> \/ Len(table) < 2 THEN <<>>
    ELSE LET header == table[1]
             rows == SubSeq(table, 2, Len(table))
             df == NewDataFrame(rows, header)
             df1 == SetColumn(df, "pagina", IntCell(page_num))
         IN  << SetColumn(df1, "tabla", IntCell(table_idx)) >>

\* lines 99-105: one detected table -> zero or one frame
TableFrames(table, page_num, table_idx) ==
    IF table = <<>> \/ Len(table) < 2 THEN <<>>
    ELSE LET header == table[1]
             rows == SubSeq(table, 2, Len(table))
             df == NewDataFrame(rows, header)
             df1 == SetColumn(df, "pagina", IntCell(page_num))
         IN  << SetColumn(df1, "tabla", IntCell(table_idx + 1)) >>

\* lines 96-106: all_tables after the two loops
AllTables(pages) ==
    Flatten([p \in DOMAIN pages |->
               Flatten([t \in DOMAIN pages[p] |->
                          TableFrames(pages[p][t], p, t - 1)])])

\* pd.DataFrame raises when a data row is not as wide as the header
FrameFails(pages) ==
    \E p \in DOMAIN pages : \E t \in DOMAIN pages[p] :
        /\ Len(pages[p][t]) >= 2
        /\ ~IsRectangular(SubSeq(pages[p][t], 2, Len(pages[p][t])), pages[p][t][1])

Returned(df) == [kind |-> "ok", df |-> df]
Raised(what) == [kind |-> what, df |-> EmptyDF]

extraer_tablas_pdf(pdf_bytes) ==
    IF ~pdf_bytes.ok \/ FrameFails(pdf_bytes.pages) THEN Raised("error")
    ELSE LET all_tables == AllTables(pdf_bytes.pages)
         IN  IF all_tables = <<>> THEN Raised("NoTablesFound")
             ELSE IF ConcatFails(all_tables) THEN Raised("error")
             ELSE Returned(DropNaAll(ReplaceEmpty(Concat(all_tables))))

\* df.insert(0, "Fecha", fecha.isoformat()) on a copy; insert raises
\* ValueError when the frame already has a column of that name
agregar_fecha(df, fecha) ==
    IF "Fecha" \in Range(df.cols) THEN Raised("error")
    ELSE Returned([cols |-> <<"Fecha">> \o df.cols,
                   rows |-> [i \in DOMAIN df.rows |->
                               <<StrCell(IsoFormat(fecha))>> \o df.rows[i]]])

(***************************************************************************)
(* The environment the runs are checked in                                 *)
(***************************************************************************)
\* the number of runs of main() made one after the other
MaxRuns == 2

\* the two run slots: consecutive runs reuse slot 1, overlapping runs use both
Slots == {1, 2}
MainSlots == {1}

\* Tuesday 5, Friday 15, Saturday 16 and Sunday 17 March 2024
Dates == {Date(2024, 3, 5), Date(2024, 3, 15), Date(2024, 3, 16), Date(2024, 3, 17)}

CtPdf == <<"a","p","p","l","i","c","a","t","i","o","n","/","p","d","f">>
CtPdfUpper == <<"A","p","p","l","i","c","a","t","i","o","n","/","P","D","F">>
CtHtml == <<"t","e","x","t","/","h","t","m","l">>
\* resp.headers.get("Content-Type", "") when the header is missing
CtMissing == <<>>

\* the bulletins a run may download
Bodies ==
    { CorruptPdf,
      Pdf(<<>>),
      Pdf(<< << << <<"Producto">> >> >> >>),
      Pdf(<< << << <<"Producto">>, <<"a">> >> >> >>),
      Pdf(<< << << <<"Producto">>, <<"a">>, <<"">> >> >> >>),
      Pdf(<< << << <<"Precio">>, <<"">> >> >> >>),
      Pdf(<< << << <<"Fecha">>, <<"a">> >> >> >>),
      Pdf(<< << << <<"Producto">>, <<"a", "a">> >> >> >>) }

\* what one requests.get can do: raise, or answer with a status, a
\* Content-Type header and a body.  Only a response the code accepts has its
\* body read, so the refused ones carry one fixed body, but for a 404 that
\* comes with a well-formed bulletin
FetchOutcomes ==
    { [exc |-> TRUE, status_code |-> 0, ctype |-> CtMissing, content |-> CorruptPdf] }
    \cup { [exc |-> FALSE, status_code |-> 200, ctype |-> c, content |-> b] :
             c \in {CtPdf, CtPdfUpper}, b \in Bodies }
    \cup { [exc |-> FALSE, status_code |-> 200, ctype |-> c, content |-> CorruptPdf] :
             c \in {CtHtml, CtMissing} }
    \cup { [exc |-> FALSE, status_code |-> 404, ctype |-> CtHtml, content |-> CorruptPdf],
           [exc |-> FALSE, status_code |-> 404, ctype |-> CtPdfUpper,
            content |-> Pdf(<< << << <<"Producto">>, <<"a">> >> >> >>)] }

NoBytes == [some |-> FALSE, pdf |-> CorruptPdf]
SomeBytes(b) == [some |-> TRUE, pdf |-> b]

StageOrder == <<"DateGate", "Locator", "Extraction", "Normalizer", "Sink">>

VARIABLES
    store,      \* the rows of worksheet "Boletin" of the spreadsheet
    wsExists,   \* whether the spreadsheet has a worksheet "Boletin"
    runs,       \* how many runs of main() have started
    pc,         \* per slot: where the run is
    hoy,        \* per slot: main's hoy
    attempts,   \* per slot: the fetches descargar_pdf has made, in order
    pdf_bytes,  \* per slot: what descargar_pdf returned
    df,         \* per slot: main's df
    existing,   \* per slot: what get_all_values returned
    result,     \* per slot: how the run ended
    stages,     \* per slot: the stages entered, in order
    passed,     \* per slot: the stages that succeeded, in order
    calls,      \* per slot: the collaborator calls made, in order
    store0      \* per slot: the rows of the store when the run started

vars == <<store, wsExists, runs, pc, hoy, attempts, pdf_bytes, df, existing,
          result, stages, passed, calls, store0>>

locals == <<attempts, pdf_bytes, df, existing>>

IdleSlot ==
    /\ pc = [r \in Slots |-> "idle"]
    /\ hoy = [r \in Slots |-> Date(2024, 3, 15)]
    /\ attempts = [r \in Slots |-> <<>>]
    /\ pdf_bytes = [r \in Slots |-> NoBytes]
    /\ df = [r \in Slots |-> EmptyDF]
    /\ existing = [r \in Slots |-> <<>>]
    /\ result = [r \in Slots |-> "none"]
    /\ stages = [r \in Slots |-> <<>>]
    /\ passed = [r \in Slots |-> <<>>]
    /\ calls = [r \in Slots |-> <<>>]
    /\ store0 = [r \in Slots |-> <<>>]

\* a spreadsheet whose worksheet, if it exists at all, is still empty
Init ==
    /\ store = <<>>
    /\ wsExists \in BOOLEAN
    /\ runs = 0
    /\ IdleSlot

Return(r, how) ==
    /\ pc' = [pc EXCEPT ![r] = "done"]
    /\ result' = [result EXCEPT ![r] = how]

Enter(r, stage) == stages' = [stages EXCEPT ![r] = Append(@, stage)]
Pass(r, stage) == passed' = [passed EXCEPT ![r] = Append(@, stage)]
Call(r, name) == calls' = [calls EXCEPT ![r] = Append(@, name)]

(***************************************************************************)
(* main, lines 136-142: today's date and the date gate                     *)
(***************************************************************************)
Start(r) ==
    /\ pc[r] \in {"idle", "done"}
    /\ runs < MaxRuns
    /\ runs' = runs + 1
    /\ \E today \in Dates :
         /\ hoy' = [hoy EXCEPT ![r] = today]
         /\ stages' = [stages EXCEPT ![r] = <<"DateGate">>]
         /\ IF ~es_dia_habil(today)
            THEN /\ pc' = [pc EXCEPT ![r] = "done"]
                 /\ result' = [result EXCEPT ![r] = "Skipped"]
                 /\ passed' = [passed EXCEPT ![r] = <<>>]
            ELSE /\ pc' = [pc EXCEPT ![r] = "fetch"]
                 /\ result' = [result EXCEPT ![r] = "none"]
                 /\ passed' = [passed EXCEPT ![r] = <<"DateGate">>]
    /\ attempts' = [attempts EXCEPT ![r] = <<>>]
    /\ pdf_bytes' = [pdf_bytes EXCEPT ![r] = NoBytes]
    /\ df' = [df EXCEPT ![r] = EmptyDF]
    /\ existing' = [existing EXCEPT ![r] = <<>>]
    /\ calls' = [calls EXCEPT ![r] = <<>>]
    /\ store0' = [store0 EXCEPT ![r] = store]
    /\ UNCHANGED <<store, wsExists>>

(***************************************************************************)
(* descargar_pdf, lines 77-89: one iteration of the loop over the          *)
(* candidates; the function returns on the first acceptable response or    *)
(* when the list is exhausted                                              *)
(***************************************************************************)
Probe(r) ==
    /\ pc[r] = "fetch"
    /\ LET urls == construir_urls_candidatas(hoy[r])
           i == Len(attempts[r]) + 1
       IN  \E out \in FetchOutcomes :
             /\ attempts' = [attempts EXCEPT ![r] =
                               Append(@, [url |-> urls[i], resp |-> out])]
             /\ IF ~out.exc /\ Aceptable(out)
                THEN /\ pdf_bytes' = [pdf_bytes EXCEPT ![r] = SomeBytes(out.content)]
                     /\ pc' = [pc EXCEPT ![r] = "located"]
                     /\ Pass(r, "Locator")
                ELSE /\ pdf_bytes' = [pdf_bytes EXCEPT ![r] = NoBytes]
                     /\ pc' = [pc EXCEPT ![r] =
                                 IF i = Len(urls) THEN "located" ELSE "fetch"]
                     /\ UNCHANGED passed
    /\ stages' = [stages EXCEPT ![r] =
                    IF attempts[r] = <<>> THEN Append(@, "Locator") ELSE @]
    /\ Call(r, "fetch")
    /\ UNCHANGED <<store, wsExists, runs, hoy, df, existing, result, store0>>

(***************************************************************************)
(* main, lines 144-155                                                     *)
(***************************************************************************)
\* lines 145-147: descargar_pdf returned None
NoPdf(r) ==
    /\ pc[r] = "located"
    /\ ~pdf_bytes[r].some
    /\ Return(r, "NotFound")
    /\ attempts' = [attempts EXCEPT ![r] = <<>>]
    /\ UNCHANGED <<store, wsExists, runs, hoy, pdf_bytes, df, existing,
                   stages, passed, calls, store0>>

\* lines 149-153: extraction inside its try/except
Extract(r) ==
    /\ pc[r] = "located"
    /\ pdf_bytes[r].some
    /\ Enter(r, "Extraction")
    /\ Call(r, "pdf_open")
    /\ attempts' = [attempts EXCEPT ![r] = <<>>]
    /\ LET res == extraer_tablas_pdf(pdf_bytes[r].pdf)
       IN  IF res.kind = "ok"
           THEN /\ df' = [df EXCEPT ![r] = res.df]
                /\ pc' = [pc EXCEPT ![r] = "normalize"]
                /\ Pass(r, "Extraction")
                /\ UNCHANGED result
           ELSE /\ Return(r, IF res.kind = "NoTablesFound"
                                THEN "NoTablesFound" ELSE "ExtractFailed")
                /\ UNCHANGED <<df, passed>>
    /\ UNCHANGED <<store, wsExists, runs, hoy, pdf_bytes, existing, store0>>

\* line 155: agregar_fecha outside every try; an exception leaves main
Normalize(r) ==
    /\ pc[r] = "normalize"
    /\ Enter(r, "Normalizer")
    /\ LET res == agregar_fecha(df[r], hoy[r])
       IN  IF res.kind = "ok"
           THEN /\ df' = [df EXCEPT ![r] = res.df]
                /\ pc' = [pc EXCEPT ![r] = "auth"]
                /\ Pass(r, "Normalizer")
                /\ UNCHANGED result
           ELSE /\ Return(r, "Crashed")
                /\ UNCHANGED <<df, passed>>
    /\ UNCHANGED <<store, wsExists, runs, hoy, attempts, pdf_bytes, existing,
                   calls, store0>>

(***************************************************************************)
(* main, lines 157-169: the write stage.  Every collaborator call is one   *)
(* step that either succeeds or raises; a call that raises has changed     *)
(* nothing in the spreadsheet, and the except of line 168 ends the run.    *)
(***************************************************************************)
WriteFailed(r) == Return(r, "WriteFailed")

\* line 158
GetClient(r) ==
    /\ pc[r] = "auth"
    /\ Enter(r, "Sink")
    /\ Call(r, "get_gspread_client")
    /\ \E ok \in BOOLEAN :
         IF ok THEN pc' = [pc EXCEPT ![r] = "open"] /\ UNCHANGED result
         ELSE WriteFailed(r)
    /\ UNCHANGED <<store, wsExists, runs, hoy, locals, passed, store0>>

\* line 159
OpenByKey(r) ==
    /\ pc[r] = "open"
    /\ Call(r, "open_by_key")
    /\ \E ok \in BOOLEAN :
         IF ok THEN pc' = [pc EXCEPT ![r] = "worksheet"] /\ UNCHANGED result
         ELSE WriteFailed(r)
    /\ UNCHANGED <<store, wsExists, runs, hoy, locals, stages, passed, store0>>

\* lines 160-162: the worksheet is returned if it exists, WorksheetNotFound
\* is caught by the inner except, any other error by the outer one
Worksheet(r) ==
    /\ pc[r] = "worksheet"
    /\ Call(r, "worksheet")
    /\ \E out \in {"ws", "WorksheetNotFound", "error"} :
         /\ out = "ws" => wsExists
         /\ out = "WorksheetNotFound" => ~wsExists
         /\ IF out = "error" THEN WriteFailed(r)
            ELSE /\ pc' = [pc EXCEPT ![r] =
                             IF out = "ws" THEN "get_all_values" ELSE "add_worksheet"]
                 /\ UNCHANGED result
    /\ UNCHANGED <<store, wsExists, runs, hoy, locals, stages, passed, store0>>

\* line 163: the spreadsheet refuses a second worksheet of the same title
AddWorksheet(r) ==
    /\ pc[r] = "add_worksheet"
    /\ Call(r, "add_worksheet")
    /\ \E ok \in BOOLEAN :
         /\ ok => ~wsExists
         /\ IF ok THEN /\ wsExists' = TRUE
                       /\ pc' = [pc EXCEPT ![r] = "get_all_values"]
                       /\ UNCHANGED result
            ELSE WriteFailed(r) /\ UNCHANGED wsExists
    /\ UNCHANGED <<store, runs, hoy, locals, stages, passed, store0>>

HeaderRow(d) == [j \in DOMAIN d.cols |-> StrCell(d.cols[j])]

\* line 124: existing = ws.get_all_values()
LeerExistentes(r) ==
    /\ pc[r] = "get_all_values"
    /\ Call(r, "get_all_values")
    /\ \E ok \in BOOLEAN :
         IF ok THEN /\ existing' = [existing EXCEPT ![r] = store]
                    /\ pc' = [pc EXCEPT ![r] = "if_not_existing"]
                    /\ UNCHANGED result
         ELSE WriteFailed(r) /\ UNCHANGED existing
    /\ UNCHANGED <<store, wsExists, runs, hoy, attempts, pdf_bytes, df,
                   stages, passed, store0>>

\* the header row appended without looking at existing
EscribirEncabezadosSiempre(r) ==
    /\ pc[r] = "if_not_existing"
    /\ Call(r, "append_row")
    /\ \E ok \in BOOLEAN :
         IF ok THEN /\ store' = Append(store, HeaderRow(df[r]))
                    /\ pc' = [pc EXCEPT ![r] = "append_df"]
                    /\ UNCHANGED result
         ELSE WriteFailed(r) /\ UNCHANGED store
    /\ UNCHANGED <<wsExists, runs, hoy, locals, stages, passed, store0>>

\* lines 125-126: if not existing: ws.append_row(list(df.columns))
EscribirEncabezados(r) ==
    /\ pc[r] = "if_not_existing"
    /\ IF existing[r] = <<>>
       THEN /\ Call(r, "append_row")
            /\ \E ok \in BOOLEAN :
                 IF ok THEN /\ store' = Append(store, HeaderRow(df[r]))
                            /\ pc' = [pc EXCEPT ![r] = "append_df"]
                            /\ UNCHANGED result
                 ELSE WriteFailed(r) /\ UNCHANGED store
       ELSE /\ pc' = [pc EXCEPT ![r] = "append_df"]
            /\ UNCHANGED <<store, calls, result>>
    /\ UNCHANGED <<wsExists, runs, hoy, locals, stages, passed, store0>>

inicializar_encabezados_si_vacio(r) ==
    LeerExistentes(r) \/ EscribirEncabezados(r)

\* the data rows sent one append_row at a time: a failure after the first
\* row leaves that row in the worksheet
append_df_row_by_row(r) ==
    /\ pc[r] = "append_df"
    /\ LET values == df[r].rows
       IN  IF values # <<>>
           THEN /\ Call(r, "append_rows")
                /\ \E ok \in BOOLEAN :
                     IF ok THEN /\ store' = store \o values
                                /\ Return(r, "Written")
                                /\ Pass(r, "Sink")
                     ELSE /\ store' = Append(store, values[1])
                          /\ WriteFailed(r)
                          /\ UNCHANGED passed
           ELSE /\ Return(r, "Written")
                /\ Pass(r, "Sink")
                /\ UNCHANGED <<store, calls>>
    /\ UNCHANGED <<wsExists, runs, hoy, locals, stages, store0>>

\* the data rows written over the worksheet (an update from its first row)
\* instead of appended
append_df_overwrite(r) ==
    /\ pc[r] = "append_df"
    /\ LET values == df[r].rows
       IN  IF values # <<>>
           THEN /\ Call(r, "append_rows")
                /\ \E ok \in BOOLEAN :
                     IF ok THEN /\ store' = values \o SubSeq(store, Len(values) + 1, Len(store))
                                /\ Return(r, "Written")
                                /\ Pass(r, "Sink")
                     ELSE WriteFailed(r) /\ UNCHANGED <<store, passed>>
           ELSE /\ Return(r, "Written")
                /\ Pass(r, "Sink")
                /\ UNCHANGED <<store, calls>>
    /\ UNCHANGED <<wsExists, runs, hoy, locals, stages, store0>>

\* lines 130-132 and 167: the data rows in one batch, if there are any
append_df_to_sheet(r) ==
    /\ pc[r] = "append_df"
    /\ LET values == df[r].rows
       IN  IF values # <<>>
           THEN /\ Call(r, "append_rows")
                /\ \E ok \in BOOLEAN :
                     IF ok THEN /\ store' = store \o values
                                /\ Return(r, "Written")
                                /\ Pass(r, "Sink")
                     ELSE WriteFailed(r) /\ UNCHANGED <<store, passed>>
           ELSE /\ Return(r, "Written")
                /\ Pass(r, "Sink")
                /\ UNCHANGED <<store, calls>>
    /\ UNCHANGED <<wsExists, runs, hoy, locals, stages, store0>>

WriteStage(r) ==
    \/ GetClient(r)
    \/ OpenByKey(r)
    \/ Worksheet(r)
    \/ AddWorksheet(r)
    \/ inicializar_encabezados_si_vacio(r)
    \/ append_df_to_sheet(r)

\* main(), run again and again, one run at a time
main(r) ==
    \/ Start(r)
    \/ Probe(r)
    \/ NoPdf(r)
    \/ Extract(r)
    \/ Normalize(r)
    \/ WriteStage(r)

Next == \E r \in MainSlots : main(r)

Spec == Init /\ [][Next]_vars

(***************************************************************************)
(* Properties of consecutive runs (Spec)                                   *)
(***************************************************************************)
\* what the claims call an acceptable fetch: no exception, status 200 and a
\* Content-Type that holds "pdf" in any case
IsPdfResponse(o) ==
    ~o.exc /\ o.status_code = 200 /\ o.ctype \in {CtPdf, CtPdfUpper}

\* the candidate lists of the two working days, written out
ExpectedUrls(d) ==
    IF d = Date(2024, 3, 5)
    THEN << "https://corabastos.com.co/wp-content/uploads/2024/03/Boletin-05marzo2024.pdf",
            "https://corabastos.com.co/wp-content/uploads/2024/03/Boletin-5marzo2024.pdf",
            "https://corabastos.com.co/wp-content/uploads/2024/03/Boletin_diario_20240305.pdf" >>
    ELSE << "https://corabastos.com.co/wp-content/uploads/2024/03/Boletin-15marzo2024.pdf",
            "https://corabastos.com.co/wp-content/uploads/2024/03/Boletin-15marzo2024.pdf",
            "https://corabastos.com.co/wp-content/uploads/2024/03/Boletin_diario_20240315.pdf" >>

\* C1: descargar_pdf fetches the three candidates in list order, one fetch
\* per candidate; it goes on after every refused or failed fetch, stops at
\* the first acceptable response and returns its body, and returns None
\* exactly when all three fetches were made and none was acceptable.
C1_LocateFirstAcceptable ==
    \A r \in Slots : pc[r] \in {"fetch", "located"} =>
      LET a == attempts[r]
          n == Len(a)
      IN  /\ n <= 3
          /\ \A i \in 1..n : a[i].url = ExpectedUrls(hoy[r])[i]
          /\ calls[r] = [i \in 1..n |-> "fetch"]
          /\ \A i \in 1..(n - 1) : ~IsPdfResponse(a[i].resp)
          /\ pc[r] = "fetch" => n < 3 /\ \A i \in 1..n : ~IsPdfResponse(a[i].resp)
          /\ pc[r] = "located" =>
               /\ n >= 1
               /\ IF IsPdfResponse(a[n].resp)
                  THEN pdf_bytes[r] = SomeBytes(a[n].resp.content)
                  ELSE n = 3 /\ pdf_bytes[r] = NoBytes

\* C1 witness: an exception, then a refused response, then the bulletin
\* under "Application/PDF": three fetches and the third body returned
C1_Witness ==
    \E r \in Slots :
      /\ pc[r] = "located"
      /\ Len(attempts[r]) = 3
      /\ attempts[r][1].resp.exc
      /\ attempts[r][2].resp.status_code = 404
      /\ attempts[r][3].resp.ctype = CtPdfUpper
      /\ pdf_bytes[r] = SomeBytes(attempts[r][3].resp.content)
      /\ pdf_bytes[r].pdf.ok

IsSaturdayOrSunday(d) == d \in {Date(2024, 3, 16), Date(2024, 3, 17)}

StoreCalls ==
    {"get_gspread_client", "open_by_key", "worksheet", "add_worksheet",
     "get_all_values", "append_row", "append_rows"}

\* C2: the stages are entered in the fixed order, each at most once and only
\* after every earlier stage has succeeded; a Saturday or Sunday run makes no
\* call at all, and a run whose locator or extraction failed makes no call
\* to the spreadsheet.
C2_StagesInOrder ==
    \A r \in Slots : pc[r] # "idle" =>
      /\ IsPrefix(stages[r], StageOrder)
      /\ IsPrefix(passed[r], StageOrder)
      /\ Len(passed[r]) <= Len(stages[r])
      /\ Len(stages[r]) <= Len(passed[r]) + 1
      /\ IsSaturdayOrSunday(hoy[r]) <=> result[r] = "Skipped"
      /\ IsSaturdayOrSunday(hoy[r]) => calls[r] = <<>>
      /\ "fetch" \in Range(calls[r]) => "DateGate" \in Range(passed[r])
      /\ "pdf_open" \in Range(calls[r]) => "Locator" \in Range(passed[r])
      /\ Range(calls[r]) \cap StoreCalls # {} =>
           /\ "Normalizer" \in Range(passed[r])
           /\ result[r] \notin {"NotFound", "NoTablesFound", "ExtractFailed"}
      /\ result[r] \in {"NotFound", "NoTablesFound", "ExtractFailed"} =>
           /\ Range(calls[r]) \cap StoreCalls = {}
           /\ "Sink" \notin Range(stages[r])

\* C2 witness: a bulletin without a usable table ends the run after the
\* extraction stage, with the fetches and the parse as its only calls
C2_Witness ==
    \E r \in Slots :
      /\ result[r] = "NoTablesFound"
      /\ stages[r] = <<"DateGate", "Locator", "Extraction">>
      /\ calls[r] = <<"fetch", "fetch", "pdf_open">>

\* C3: no run ends with an exception leaving main.
C3_NoExceptionLeavesMain == \A r \in Slots : result[r] # "Crashed"

IsHeaderRow(row) == row # <<>> /\ row[1] = StrCell("Fecha")
HeaderCount(s) == Cardinality({i \in DOMAIN s : IsHeaderRow(s[i])})

\* the store after a run that wrote frame d to store s
SerialWrite(s, d) ==
    s \o (IF s = <<>> THEN <<HeaderRow(d)>> ELSE <<>>) \o d.rows

\* C4: over consecutive runs the store holds at most one header row, and it
\* is the first row; a run calls append_row only if the store was empty when
\* the run began, a run that reaches the data append has called append_row
\* exactly when the store it read was empty, and the rows a run found stay
\* where they were.
C4_HeaderWrittenOnce ==
    /\ HeaderCount(store) <= 1
    /\ store # <<>> => IsHeaderRow(store[1])
    /\ \A r \in Slots :
         /\ IsPrefix(store0[r], store)
         /\ "append_row" \in Range(calls[r]) => store0[r] = <<>>
         /\ pc[r] = "append_df" \/ result[r] = "Written" =>
              /\ existing[r] = store0[r]
              /\ "append_row" \in Range(calls[r]) <=> existing[r] = <<>>
              /\ HeaderCount(store) = 1
         /\ pc[r] = "append_df" =>
              store = IF store0[r] = <<>> THEN <<HeaderRow(df[r])>> ELSE store0[r]

\* C4 witness: a second run with other columns than the header row in the
\* store has written its rows without touching the header
C4_Witness ==
    \E r \in Slots :
      /\ result[r] = "Written"
      /\ store0[r] # <<>>
      /\ store[1] # HeaderRow(df[r])
      /\ "append_row" \notin Range(calls[r])

\* C5 as stated: a run whose write stage failed leaves the store exactly as
\* it found it.
C5_FailedWriteLeavesStore ==
    \A r \in Slots : result[r] = "WriteFailed" => store = store0[r]

\* C5 amended: a run whose write stage failed has written no data row; the
\* store is as the run found it, or, if it was empty and it is append_rows
\* that failed, it holds the header row alone.
C5_FailedWriteWritesNoData ==
    \A r \in Slots : result[r] = "WriteFailed" =>
      \/ store = store0[r]
      \/ /\ store0[r] = <<>>
         /\ store = <<HeaderRow(df[r])>>
         /\ calls[r][Len(calls[r])] = "append_rows"

\* C5 witness: append_rows failed on a store that was empty
C5_Witness ==
    \E r \in Slots :
      /\ result[r] = "WriteFailed"
      /\ calls[r][Len(calls[r])] = "append_rows"
      /\ store0[r] = <<>>
      /\ store = <<HeaderRow(df[r])>>

ExpectedIso(d) ==
    IF d = Date(2024, 3, 5) THEN "2024-03-05"
    ELSE IF d = Date(2024, 3, 15) THEN "2024-03-15"
    ELSE "not a working day"

\* C10: whatever the outcome of a run, the rows it found are a prefix of the
\* store; a run that did not reach the write stage leaves the store as it
\* was; a run that ends Written has added, after one header row if the store
\* was empty, exactly its frame's rows in their order, each starting with
\* the run's date in ISO form; append_rows is never called with no rows.
C10_AppendOnly ==
    \A r \in Slots : pc[r] # "idle" =>
      /\ IsPrefix(store0[r], store)
      /\ result[r] \in {"Skipped", "NotFound", "NoTablesFound", "ExtractFailed", "Crashed"}
           => store = store0[r]
      /\ "append_rows" \in Range(calls[r]) => df[r].rows # <<>>
      /\ result[r] = "Written" =>
           /\ store = SerialWrite(store0[r], df[r])
           /\ df[r].cols[1] = "Fecha"
           /\ \A i \in DOMAIN df[r].rows :
                df[r].rows[i][1] = StrCell(ExpectedIso(hoy[r]))
           /\ df[r].rows = <<>> => "append_rows" \notin Range(calls[r])

\* C10 witness: a run of two data rows written after the rows of an earlier run
C10_Witness ==
    \E r \in Slots :
      /\ result[r] = "Written"
      /\ Len(df[r].rows) = 2
      /\ store0[r] # <<>>
      /\ Len(store) = Len(store0[r]) + 2


(***************************************************************************)
(* Extraction on its own: a run that has just located a bulletin, for      *)
(* every bulletin of a bounded shape                                       *)
(***************************************************************************)
\* pages of a bulletin
MaxPages == 2
\* size of a bulletin: its detected tables plus their rows, header rows
\* included, all pages together
MaxSize == 6

Cells == {"", "a"}
Headers == { <<"Producto", "Precio">>, <<"Precio", "Precio">>,
             <<"Precio">>, <<"pagina">> }

\* the detected tables of exactly k rows; the one of no rows is the empty list
TablesOfSize(k) ==
    IF k = 0 THEN {<<>>}
    ELSE UNION { { <<h>> \o rs : rs \in [1..(k - 1) -> [1..Len(h) -> Cells]] }
                 : h \in Headers }

RECURSIVE PagesWith(_, _)
\* the pages of exactly nt detected tables that have nr rows together
PagesWith(nt, nr) ==
    IF nt = 0 THEN (IF nr = 0 THEN {<<>>} ELSE {})
    ELSE UNION { { <<t>> \o rest : t \in TablesOfSize(k),
                                   rest \in PagesWith(nt - 1, nr - k) }
                 : k \in 0..nr }

\* the ways to spend at most size on one page: <<tables, rows>>
Splits(size) == { a \in (0..size) \X (0..size) : a[1] + a[2] <= size }

RECURSIVE DocsUpTo(_, _)
\* the page lists of at most np pages and of at most the given size
DocsUpTo(np, size) ==
    IF np = 0 THEN {<<>>}
    ELSE {<<>>} \cup
         UNION { { <<pg>> \o rest : pg \in PagesWith(a[1], a[2]),
                                    rest \in DocsUpTo(np - 1, size - a[1] - a[2]) }
                 : a \in Splits(size) }

AcceptedFetch(fecha, body) ==
    [url |-> construir_urls_candidatas(fecha)[1],
     resp |-> [exc |-> FALSE, status_code |-> 200, ctype |-> CtPdf, content |-> body]]

\* a run of 15 March 2024 whose first fetch has just returned doc
Located(doc) ==
    /\ store = <<>>
    /\ wsExists = TRUE
    /\ runs = 1
    /\ pdf_bytes = [r \in Slots |-> IF r = 1 THEN SomeBytes(doc) ELSE NoBytes]
    /\ attempts = [r \in Slots |->
                     IF r = 1 THEN <<AcceptedFetch(Date(2024, 3, 15), doc)>>
                     ELSE <<>>]
    /\ pc = [r \in Slots |-> IF r = 1 THEN "located" ELSE "idle"]
    /\ hoy = [r \in Slots |-> Date(2024, 3, 15)]
    /\ df = [r \in Slots |-> EmptyDF]
    /\ existing = [r \in Slots |-> <<>>]
    /\ result = [r \in Slots |-> "none"]
    /\ stages = [r \in Slots |-> IF r = 1 THEN <<"DateGate", "Locator">> ELSE <<>>]
    /\ passed = [r \in Slots |-> IF r = 1 THEN <<"DateGate", "Locator">> ELSE <<>>]
    /\ calls = [r \in Slots |-> IF r = 1 THEN <<"fetch">> ELSE <<>>]
    /\ store0 = [r \in Slots |-> <<>>]

\* every bulletin of at most MaxPages pages and size MaxSize
InitExtract ==
    \E a \in Splits(MaxSize) :
      \E pg \in PagesWith(a[1], a[2]),
         rest \in DocsUpTo(MaxPages - 1, MaxSize - a[1] - a[2]) :
        \E pages \in {<<pg>> \o rest, rest} : Located(Pdf(pages))

NextExtract == \E r \in MainSlots : Extract(r) \/ Normalize(r)

SpecExtract == InitExtract /\ [][NextExtract]_vars

(***************************************************************************)
(* Properties of extraction (SpecExtract)                                  *)
(***************************************************************************)
\* the data rows of the usable tables, in document order, each with its
\* page, its table's position on the page, its table's header and its cells
ExpectedRows(pages) ==
    Flatten([p \in DOMAIN pages |->
      Flatten([t \in DOMAIN pages[p] |->
        IF Len(pages[p][t]) >= 2
        THEN [i \in 1..(Len(pages[p][t]) - 1) |->
                [pagina |-> p, tabla |-> t, header |-> pages[p][t][1],
                 cells |-> pages[p][t][i + 1]]]
        ELSE <<>>])])

Extracted(r) == pc[r] = "normalize"

\* C7: extraction returns a frame exactly when some detected table has at
\* least two rows, and otherwise raises the no-tables error unless another
\* error came first; the frame has one row for every data row of every
\* table of at least two rows, and nothing from the shorter tables.
C7_ExtractKeepsUsableTables ==
    \A r \in MainSlots :
      LET pages == pdf_bytes[r].pdf.pages
          tables == Flatten(pages)
          usable == {i \in DOMAIN tables : Len(tables[i]) >= 2}
      IN  /\ pc[r] # "located" => (result[r] = "NoTablesFound" <=> usable = {})
          /\ pc[r] \in {"normalize", "auth"} \/ result[r] = "Crashed" =>
               /\ usable # {}
               /\ Len(df[r].rows) = Len(ExpectedRows(pages))
               /\ usable = {CHOOSE i \in usable : TRUE} =>
                    Len(df[r].rows) = Len(tables[CHOOSE i \in usable : TRUE]) - 1

\* C7 witness: a header-only table and a two-row table give one row
C7_Witness ==
    \E r \in MainSlots :
      LET tables == Flatten(pdf_bytes[r].pdf.pages)
      IN  /\ Extracted(r)
          /\ Len(tables) = 2
          /\ Len(tables[1]) = 1
          /\ Len(tables[2]) = 2
          /\ Len(df[r].rows) = 1

\* C8: the frame extraction returns has no row for a data row whose cells
\* are all the empty string.
C8_EmptyRowsAbsent ==
    \A r \in MainSlots :
      Extracted(r) =>
        LET exp == ExpectedRows(pdf_bytes[r].pdf.pages)
        IN  Len(df[r].rows) =
              Cardinality({k \in DOMAIN exp :
                             \E j \in DOMAIN exp[k].cells : exp[k].cells[j] # ""})

ColumnOf(d, name) == CHOOSE j \in DOMAIN d.cols : d.cols[j] = name

\* C9: row k of the frame comes from the k-th data row of the bulletin: its
\* pagina is that row's page, its tabla the position of the row's table
\* among the tables detected on the page, and under every column name of its
\* table (other than the provenance names) it holds the row's cell, missing
\* if empty; so rows are in (pagina, tabla) order.  The two-page example
\* gives the columns Producto, Precio, pagina, tabla and two rows of page 1,
\* table 1.
C9_Provenance ==
    \A r \in MainSlots :
      Extracted(r) =>
        LET pages == pdf_bytes[r].pdf.pages
            exp == ExpectedRows(pages)
            d == df[r]
        IN  /\ Len(d.rows) = Len(exp)
            /\ \A k \in DOMAIN exp :
                 /\ d.rows[k][ColumnOf(d, "pagina")] = IntCell(exp[k].pagina)
                 /\ d.rows[k][ColumnOf(d, "tabla")] = IntCell(exp[k].tabla)
                 /\ ~HasDuplicates(exp[k].header) =>
                      \A j \in DOMAIN exp[k].header :
                        exp[k].header[j] \notin {"pagina", "tabla"} =>
                          d.rows[k][ColumnOf(d, exp[k].header[j])] =
                            IF exp[k].cells[j] = "" THEN NA
                            ELSE StrCell(exp[k].cells[j])
            /\ \A k, l \in DOMAIN d.rows :
                 k < l =>
                   LET pk == d.rows[k][ColumnOf(d, "pagina")].n
                       pl == d.rows[l][ColumnOf(d, "pagina")].n
                       tk == d.rows[k][ColumnOf(d, "tabla")].n
                       tl == d.rows[l][ColumnOf(d, "tabla")].n
                   IN  pk < pl \/ (pk = pl /\ tk <= tl)
            /\ ( /\ Len(pages) = 2
                 /\ Len(pages[1]) = 1
                 /\ Len(pages[1][1]) = 3
                 /\ pages[1][1][1] = <<"Producto", "Precio">>
                 /\ pages[2] = <<>> ) =>
                 /\ d.cols = <<"Producto", "Precio", "pagina", "tabla">>
                 /\ Len(d.rows) = 2
                 /\ \A k \in 1..2 : SubSeq(d.rows[k], 3, 4) = <<IntCell(1), IntCell(1)>>

\* C9 witness: the usable table is the second one detected on page 2, after
\* a discarded one, and its row is tagged pagina 2, tabla 2
C9_Witness ==
    \E r \in MainSlots :
      LET pages == pdf_bytes[r].pdf.pages
      IN  /\ Extracted(r)
          /\ Len(pages) = 2
          /\ pages[1] = <<>>
          /\ Len(pages[2]) = 2
          /\ Len(pages[2][1]) = 1
          /\ pages[2][2][1] = <<"Producto", "Precio">>
          /\ df[r].rows[1][3] = IntCell(2)
          /\ df[r].rows[1][4] = IntCell(2)


(***************************************************************************)
(* Two runs of different dates in their write stages at once (SpecConc).   *)
(* Everything a run does before line 157 touches no shared state, so the   *)
(* runs start where each has its frame ready; the spreadsheet is new, or   *)
(* holds what a run of 4 March 2024 wrote.                                 *)
(***************************************************************************)
WorkingDays == {d \in Dates : es_dia_habil(d)}

\* main's df at line 157 for a run of the given date and bulletin
FrameOf(fecha, body) == agregar_fecha(extraer_tablas_pdf(body).df, fecha).df

Writable(body) ==
    /\ extraer_tablas_pdf(body).kind = "ok"
    /\ agregar_fecha(extraer_tablas_pdf(body).df, Date(2024, 3, 4)).kind = "ok"

EarlierStores ==
    {<<>>} \cup { <<HeaderRow(FrameOf(Date(2024, 3, 4), b))>>
                    \o FrameOf(Date(2024, 3, 4), b).rows
                  : b \in {c \in Bodies : Writable(c)} }

InitConc ==
    /\ store \in EarlierStores
    /\ wsExists \in {w \in BOOLEAN : store # <<>> => w}
    /\ runs = 2
    /\ \E d \in [Slots -> WorkingDays], b \in [Slots -> {c \in Bodies : Writable(c)}] :
         /\ d[1] # d[2]
         /\ hoy = d
         /\ pdf_bytes = [r \in Slots |-> SomeBytes(b[r])]
         /\ df = [r \in Slots |-> FrameOf(d[r], b[r])]
    /\ pc = [r \in Slots |-> "auth"]
    /\ attempts = [r \in Slots |-> <<>>]
    /\ existing = [r \in Slots |-> <<>>]
    /\ result = [r \in Slots |-> "none"]
    /\ stages = [r \in Slots |-> SubSeq(StageOrder, 1, 4)]
    /\ passed = [r \in Slots |-> SubSeq(StageOrder, 1, 4)]
    /\ calls = [r \in Slots |-> <<"fetch", "pdf_open">>]
    /\ store0 = [r \in Slots |-> store]

NextConc == \E r \in Slots : WriteStage(r)

SpecConc == InitConc /\ [][NextConc]_vars

\* C6: when both runs have written, the store is what the two runs would
\* have left had one run after the other, in one of the two orders; so it
\* has one header row, before every data row.
C6_ConcurrentRunsSerializable ==
    (\A r \in Slots : result[r] = "Written") =>
      /\ \/ store = SerialWrite(SerialWrite(store0[1], df[1]), df[2])
         \/ store = SerialWrite(SerialWrite(store0[1], df[2]), df[1])
      /\ HeaderCount(store) = 1
      /\ IsHeaderRow(store[1])

====
